---- MODULE Spec2Model ----
(***************************************************************************)
(* Model of agents/voice/realtime/tool_exec.py: ToolExecutor.__init__ and  *)
(* ToolExecutor.execute.                                                   *)
(*                                                                         *)
(* A Python str is a sequence of chunks.  A chunk is either one of the two *)
(* characters JSON must escape (DQ, BS) or an opaque run of characters     *)
(* that needs no escaping.  A Python value is a record [t, v]: t is the    *)
(* type tag, v the payload.                                                *)
(***************************************************************************)
EXTENDS Integers, Sequences

\* ------------------------------------------------------------------ bounds
MaxTools == 2
NumCalls == 2

\* ------------------------------------------------------------------- text
DQ == "\""
BS == "\\"

RECURSIVE Join(_, _)
Join(ss, sep) ==
    IF ss = <<>> THEN <<>>
    ELSE IF Len(ss) = 1 THEN Head(ss)
    ELSE Head(ss) \o sep \o Join(Tail(ss), sep)

\* ------------------------------------------------------------ Python values
PyStrV(s)   == [t |-> "str",   v |-> s]
PyIntV(d)   == [t |-> "int",   v |-> <<d>>]
PyNone      == [t |-> "none",  v |-> <<>>]
PyDictV(kv) == [t |-> "dict",  v |-> kv]
PyListV(xs) == [t |-> "list",  v |-> xs]
PyTupleV(xs) == [t |-> "tuple", v |-> xs]
PySetV(xs)  == [t |-> "set",   v |-> xs]
\* d = {}; d["self"] = d
PyCircular  == [t |-> "circular", v |-> <<>>]

Ok(text)       == [ok |-> TRUE,  text |-> text, cls |-> "",  msg |-> <<>>]
Raise(cls, m)  == [ok |-> FALSE, text |-> <<>>, cls |-> cls, msg |-> m]

\* json.dumps on a str: py_encode_basestring_ascii
NoEscape(s) == s

RECURSIVE JsonEscape(_)
JsonEscape(s) ==
    IF s = <<>> THEN <<>>
    ELSE (IF Head(s) \in {DQ, BS} THEN <<BS, Head(s)>> ELSE <<Head(s)>>)
         \o JsonEscape(Tail(s))

JsonString(s) == <<DQ>> \o JsonEscape(s) \o <<DQ>>

\* json.dumps(value) with the default separators (", ", ": "); the result is
\* Ok(text) or the exception json.dumps raises.
RECURSIVE JsonDumps(_)
RECURSIVE JsonDumpsAll(_)
JsonDumpsAll(xs) ==
    IF xs = <<>> THEN <<>> ELSE <<JsonDumps(Head(xs))>> \o JsonDumpsAll(Tail(xs))

FirstFailure(rs) ==
    LET bad == {i \in 1..Len(rs) : ~rs[i].ok}
    IN  IF bad = {} THEN Ok(<<>>)
        ELSE rs[CHOOSE i \in bad : \A j \in bad : i <= j]

JsonDumps(x) ==
    CASE x.t = "str"   -> Ok(JsonString(x.v))
      [] x.t = "int"   -> Ok(x.v)
      [] x.t = "none"  -> Ok(<<"null">>)
      [] x.t \in {"list", "tuple"} ->
            LET rs == JsonDumpsAll(x.v)
                f  == FirstFailure(rs)
            IN  IF ~f.ok THEN f
                ELSE Ok(<<"[">> \o Join([i \in 1..Len(rs) |-> rs[i].text], <<", ">>)
                        \o <<"]">>)
      [] x.t = "dict"  ->
            LET rs == JsonDumpsAll([i \in 1..Len(x.v) |-> x.v[i][2]])
                f  == FirstFailure(rs)
            IN  IF ~f.ok THEN f
                ELSE Ok(<<"{">>
                        \o Join([i \in 1..Len(rs) |->
                                   JsonString(x.v[i][1]) \o <<": ">> \o rs[i].text],
                                <<", ">>)
                        \o <<"}">>)
      [] x.t = "set"   -> Raise("TypeError",
                                <<"Object of type set is not JSON serializable">>)
      [] x.t = "circular" -> Raise("ValueError", <<"Circular reference detected">>)

\* repr(value), as str() of a container applies it to the items
RECURSIVE PyRepr(_)
PyRepr(x) ==
    CASE x.t = "str"   -> <<"'">> \o x.v \o <<"'">>
      [] x.t = "int"   -> x.v
      [] x.t = "none"  -> <<"None">>
      [] x.t = "list"  ->
            <<"[">> \o Join([i \in 1..Len(x.v) |-> PyRepr(x.v[i])], <<", ">>) \o <<"]">>
      [] x.t = "tuple" ->
            <<"(">> \o Join([i \in 1..Len(x.v) |-> PyRepr(x.v[i])], <<", ">>)
            \o (IF Len(x.v) = 1 THEN <<",">> ELSE <<>>) \o <<")">>
      [] x.t = "dict"  ->
            <<"{">>
            \o Join([i \in 1..Len(x.v) |->
                       PyRepr(PyStrV(x.v[i][1])) \o <<": ">> \o PyRepr(x.v[i][2])],
                    <<", ">>)
            \o <<"}">>
      [] x.t = "set"   ->
            <<"{">> \o Join([i \in 1..Len(x.v) |-> PyRepr(x.v[i])], <<", ">>) \o <<"}">>
      [] x.t = "circular" -> <<"{'self': {...}}">>

\* str(value)
PyStr(x) == IF x.t = "str" THEN x.v ELSE PyRepr(x)

\* ------------------------------------------------- reading a JSON object back
\* The reader of execute's result: a JSON object whose members are all
\* strings.  Gives [ok, pairs]; pairs is the sequence of <<key, value>>.
NoParse == [ok |-> FALSE, pairs |-> <<>>]

RECURSIVE ScanString(_, _, _)
\* t[i-1] was the opening quote; acc is what was read so far
ScanString(t, i, acc) ==
    IF i > Len(t) THEN [ok |-> FALSE, val |-> <<>>, next |-> i]
    ELSE IF t[i] = DQ THEN [ok |-> TRUE, val |-> acc, next |-> i + 1]
    ELSE IF t[i] = BS THEN
        IF i + 1 > Len(t) \/ t[i + 1] \notin {DQ, BS}
        THEN [ok |-> FALSE, val |-> <<>>, next |-> i]
        ELSE ScanString(t, i + 2, Append(acc, t[i + 1]))
    ELSE ScanString(t, i + 1, Append(acc, t[i]))

ParseString(t, i) ==
    IF i > Len(t) \/ t[i] # DQ THEN [ok |-> FALSE, val |-> <<>>, next |-> i]
    ELSE ScanString(t, i + 1, <<>>)

RECURSIVE ParseMembers(_, _, _)
ParseMembers(t, i, acc) ==
    LET k == ParseString(t, i)
    IN  IF ~k.ok \/ k.next > Len(t) \/ t[k.next] # ": " THEN NoParse
        ELSE LET v == ParseString(t, k.next + 1)
             IN  IF ~v.ok \/ v.next > Len(t) THEN NoParse
                 ELSE LET acc2 == Append(acc, <<k.val, v.val>>)
                      IN  IF t[v.next] = "}" /\ v.next = Len(t)
                          THEN [ok |-> TRUE, pairs |-> acc2]
                          ELSE IF t[v.next] = ", "
                          THEN ParseMembers(t, v.next + 1, acc2)
                          ELSE NoParse

JsonLoadsObject(t) ==
    IF Len(t) < 2 \/ t[1] # "{" THEN NoParse
    ELSE IF Len(t) = 2 /\ t[2] = "}" THEN [ok |-> TRUE, pairs |-> <<>>]
    ELSE ParseMembers(t, 2, <<>>)

\* text parses as a JSON object with exactly the keys error and tool_name,
\* tool_name holding name
IsErrorShape(text, name) ==
    LET p == JsonLoadsObject(text)
    IN  /\ p.ok
        /\ Len(p.pairs) = 2
        /\ {p.pairs[1][1], p.pairs[2][1]} = {<<"error">>, <<"tool_name">>}
        /\ \A i \in 1..2 : p.pairs[i][1] = <<"tool_name">> => p.pairs[i][2] = name

\* ... and error holding msg
IsErrorObject(text, msg, name) ==
    /\ IsErrorShape(text, name)
    /\ LET p == JsonLoadsObject(text)
       IN  \A i \in 1..2 : p.pairs[i][1] = <<"error">> => p.pairs[i][2] = msg

\* ------------------------------------------------------------------ tools
NameLookup == <<"lookup">>
NameDetails == <<"get_user_details">>
\* a name JSON has to escape; no tool carries it
NameQuoted == <<"say ", DQ, "hi", DQ>>

ToolNames == {NameLookup, NameDetails}
EventNames == ToolNames \cup {NameQuoted}

\* the attribute `function` of a FunctionTool:
\*   present   - hasattr(tool, "function")
\*   callable  - callable(tool.function)
\*   signature - whether inspect.signature(tool.function) succeeds
\*   params    - the names of its parameters, in order
NoFunction     == [present |-> FALSE, callable |-> FALSE, signature |-> FALSE, params |-> <<>>]
NotCallable    == [present |-> TRUE,  callable |-> FALSE, signature |-> FALSE, params |-> <<>>]
Uninspectable  == [present |-> TRUE,  callable |-> TRUE,  signature |-> FALSE, params |-> <<>>]
Function(ps)   == [present |-> TRUE,  callable |-> TRUE,  signature |-> TRUE,  params |-> ps]

Functions ==
    {NoFunction, NotCallable, Uninspectable,
     Function(<<>>), Function(<<"context", "x">>), Function(<<"x", "context">>)}

FunctionTools == [variant : {"FunctionTool"}, name : ToolNames, function : Functions]
\* any other member of the Tool union (ComputerTool, WebSearchTool, ...)
OtherTools    == [variant : {"OtherTool"}, name : ToolNames, function : {NoFunction}]
Tools         == FunctionTools \cup OtherTools

ToolSeqs == UNION {[1..n -> Tools] : n \in 0..MaxTools}

SharedContexts == {"session-context"}

\* ------------------------------------------------------ ToolExecutor.__init__
\* isinstance(tool, FunctionTool)
EveryToolIsFunctionTool(tool) == TRUE

IsFunctionTool(tool) == tool.variant = "FunctionTool"

\* self._tool_map[tool.name] = tool; the map holds the position of the tool
\* object in the constructor's sequence
RegisterFirstWins(map, name, i) ==
    [n \in DOMAIN map \cup {name} |-> IF n \in DOMAIN map THEN map[n] ELSE i]

Register(map, name, i) ==
    [n \in DOMAIN map \cup {name} |-> IF n = name THEN i ELSE map[n]]

\* params and params[0] == "context"
FirstParamIsContext(params) == params # <<>> /\ params[1] = "context"

ContextAwareNames == {<<"greet_user_and_count">>, <<"get_user_details">>}

\* the names one pass of the loop body adds to self._context_aware_tools;
\* raises is TRUE when inspect.signature raises
InspectTool(tool) ==
    IF tool.function.present
    THEN IF tool.function.callable
         THEN IF ~tool.function.signature
              THEN [raises |-> TRUE, aware |-> {}]
              ELSE [raises |-> FALSE,
                    aware  |-> IF FirstParamIsContext(tool.function.params)
                               THEN {tool.name} ELSE {}]
         ELSE [raises |-> FALSE, aware |-> {}]
    ELSE [raises |-> FALSE,
          aware  |-> IF tool.name \in ContextAwareNames THEN {tool.name} ELSE {}]

NewExecutor == [tool_map |-> <<>>, context_aware_tools |-> {}, raised |-> FALSE]

RECURSIVE InitLoop(_, _, _)
\* for tool in tools: ... from position i on
InitLoop(ts, i, self) ==
    IF i > Len(ts) THEN self
    ELSE IF IsFunctionTool(ts[i])
    THEN LET m  == Register(self.tool_map, ts[i].name, i)
             in == InspectTool(ts[i])
         IN  IF in.raises
             THEN [self EXCEPT !.tool_map = m, !.raised = TRUE]
             ELSE InitLoop(ts, i + 1,
                           [self EXCEPT !.tool_map = m,
                                        !.context_aware_tools = @ \cup in.aware])
    ELSE InitLoop(ts, i + 1, self)

ToolExecutorInit(ts) == InitLoop(ts, 1, NewExecutor)

\* ------------------------------------------------------------- exceptions
\* the base class of each exception class the model raises
BaseOf(cls) ==
    CASE cls = "TypeError"      -> "Exception"
      [] cls = "ValueError"     -> "Exception"
      [] cls = "Exception"      -> "BaseException"
      [] cls = "CancelledError" -> "BaseException"
      [] OTHER                  -> "object"

RECURSIVE IsSubclass(_, _)
IsSubclass(cls, of) ==
    IF cls = of THEN TRUE
    ELSE IF cls \in {"object", ""} THEN FALSE
    ELSE IsSubclass(BaseOf(cls), of)

\* except TypeError as e  (around json.dumps(tool_call_event.arguments))
CatchesSerialization(cls) == IsSubclass(cls, "TypeError")

\* except Exception as e  (around the invocation and the coercion)
CatchesOnlyTypeError(cls) == IsSubclass(cls, "TypeError")

CatchesInvocation(cls) == IsSubclass(cls, "Exception")

\* ------------------------------------------------------ events and outcomes
ArgsPlain    == PyDictV(<< <<<<"city">>, PyStrV(<<"Oslo">>)>> >>)
ArgsSet      == PyDictV(<< <<<<"ids">>, PySetV(<<PyIntV("1")>>)>> >>)
ArgsCircular == PyCircular

Arguments == {ArgsPlain, ArgsSet, ArgsCircular}
Events    == [tool_name : EventNames, arguments : Arguments]

NoEvent   == [tool_name |-> <<>>, arguments |-> PyNone]

\* what awaiting tool.on_invoke_tool(...) produces
Returns(v)     == [kind |-> "return", value |-> v,      cls |-> "",  msg |-> <<>>]
Raises(cls, m) == [kind |-> "raise",  value |-> PyNone, cls |-> cls, msg |-> m]
NoOutcome      == [kind |-> "none",   value |-> PyNone, cls |-> "",  msg |-> <<>>]

OutCount  == PyDictV(<< <<<<"count">>, PyIntV("3")>> >>)
OutList   == PyListV(<<PyIntV("1"), PyStrV(<<"a">>)>>)
OutBadDict == PyDictV(<< <<<<"seen">>, PySetV(<<PyIntV("1")>>)>> >>)
OutTuple  == PyTupleV(<<PyIntV("1"), PyIntV("2")>>)
MsgQuoted == <<"no such city ", DQ, "Oslo", DQ>>

Outcomes ==
    {Returns(PyStrV(<<"sunny">>)), Returns(OutCount), Returns(OutList),
     Returns(OutBadDict), Returns(OutTuple), Returns(PyNone),
     Raises("ValueError", MsgQuoted), Raises("CancelledError", <<>>)}

\* ------------------------------------------------------ ToolExecutor.execute
\* One call of execute is a frame:
\*   st        - "idle" | "awaiting" | "returned" | "raised"
\*   event     - tool_call_event
\*   invoked   - the calls of on_invoke_tool it made: the tool (its position in
\*               the constructor's sequence), the context argument and the
\*               arguments_json argument
\*   outcome   - what the awaited invocation produced
\*   result    - the returned str, when st = "returned"
\*   exc       - the class of the exception that left execute, when st = "raised"
IdleFrame ==
    [st |-> "idle", event |-> NoEvent, invoked |-> <<>>, outcome |-> NoOutcome,
     result |-> <<>>, exc |-> ""]

\* RunContextWrapper(context=self._shared_context), and None
RunContextWrapper(ctx) == [wrapped |-> TRUE, context |-> ctx]
NoContext == [wrapped |-> FALSE, context |-> "None"]

\* json.dumps({"error": msg, "tool_name": tool_name})
ErrorObject(msg, tool_name) ==
    JsonDumps(PyDictV(<< <<<<"error">>, PyStrV(msg)>>,
                         <<<<"tool_name">>, PyStrV(tool_name)>> >>)).text

\* f"Tool '{tool_name}' not found in ToolExecutor."
NotFoundMsg(tool_name) == <<"Tool '">> \o tool_name \o <<"' not found in ToolExecutor.">>

\* f"Failed to serialize arguments for tool '{tool_name}': {e}"
SerializeMsg(tool_name, e) ==
    <<"Failed to serialize arguments for tool '">> \o tool_name \o <<"': ">> \o e

\* self._tool_map.get(tool_name); 0 stands for None
DictGet(map, name) == IF name \in DOMAIN map THEN map[name] ELSE 0

Return(frame, text) == [frame EXCEPT !.st = "returned", !.result = text]
Escape(frame, cls)  == [frame EXCEPT !.st = "raised", !.exc = cls]

\* the body of execute up to its first await or return
ExecuteBegin(self, ev) ==
    LET tool_name == ev.tool_name
        tool      == DictGet(self.tool_map, tool_name)
        frame     == [IdleFrame EXCEPT !.event = ev]
    IN  IF tool = 0
        THEN Return(frame, ErrorObject(NotFoundMsg(tool_name), tool_name))
        ELSE LET arguments_json == JsonDumps(ev.arguments)
             IN  IF ~arguments_json.ok
                 THEN IF CatchesSerialization(arguments_json.cls)
                      THEN Return(frame,
                                  ErrorObject(SerializeMsg(tool_name, arguments_json.msg),
                                              tool_name))
                      ELSE Escape(frame, arguments_json.cls)
                 ELSE LET needs_context == tool_name \in self.context_aware_tools
                      IN  [frame EXCEPT
                             !.st = "awaiting",
                             !.invoked =
                                <<[tool |-> tool,
                                   context |-> IF needs_context
                                               THEN RunContextWrapper(self.shared_context)
                                               ELSE NoContext,
                                   arguments_json |-> arguments_json.text]>>]

\* the coercion of tool_output to tool_output_str
CoerceStrOnly(tool_output) == Ok(PyStr(tool_output))

Coerce(tool_output) ==
    IF tool_output.t # "str"
    THEN IF tool_output.t \in {"dict", "list"}
         THEN JsonDumps(tool_output)
         ELSE Ok(PyStr(tool_output))
    ELSE Ok(tool_output.v)

\* the local variable tool_name of the call c of execute
ToolNameOfLatestCall(frames, c) == frames[Len(frames)].event.tool_name

ToolName(frames, c) == frames[c].event.tool_name

\* the except clause after the invocation: an exception of class cls with
\* message msg was raised in the try block of this frame
RetryOnce(frame, tool_name, cls, msg) ==
    IF CatchesInvocation(cls) /\ Len(frame.invoked) = 1
    THEN [frame EXCEPT !.st = "awaiting", !.outcome = NoOutcome,
                       !.invoked = Append(@, @[1])]
    ELSE IF CatchesInvocation(cls)
    THEN Return(frame, ErrorObject(msg, tool_name))
    ELSE Escape(frame, cls)

OnException(frame, tool_name, cls, msg) ==
    IF CatchesInvocation(cls)
    THEN Return(frame, ErrorObject(msg, tool_name))
    ELSE Escape(frame, cls)

\* the body of execute from the await on: the invocation produced outcome o
ExecuteResume(frames, c, o) ==
    LET frame     == [frames[c] EXCEPT !.outcome = o]
        tool_name == ToolName(frames, c)
    IN  IF o.kind = "raise"
        THEN OnException(frame, tool_name, o.cls, o.msg)
        ELSE LET tool_output_str == Coerce(o.value)
             IN  IF tool_output_str.ok
                 THEN Return(frame, tool_output_str.text)
                 ELSE OnException(frame, tool_name,
                                  tool_output_str.cls, tool_output_str.msg)

\* ------------------------------------------------------------ state machine
VARIABLES
    tools,                 \* the sequence given to the constructor
    phase,                 \* "new" | "ready" | "raised": the constructor's state
    tool_map,              \* self._tool_map
    context_aware_tools,   \* self._context_aware_tools
    shared_context,        \* self._shared_context
    calls,                 \* the frames of the calls of execute in flight,
                           \* in the order they started
    last                   \* the frame of the call of execute that just ended,
                           \* until its caller takes the result

vars == <<tools, phase, tool_map, context_aware_tools, shared_context, calls, last>>

Self ==
    [tool_map |-> tool_map, context_aware_tools |-> context_aware_tools,
     shared_context |-> shared_context]

Init ==
    /\ tools \in ToolSeqs
    /\ shared_context \in SharedContexts
    /\ phase = "new"
    /\ tool_map = <<>>
    /\ context_aware_tools = {}
    /\ calls = <<>>
    /\ last = IdleFrame

\* ToolExecutor(tools, shared_context)
Construct ==
    /\ phase = "new"
    /\ LET self == ToolExecutorInit(tools)
       IN  IF self.raised
           THEN /\ phase' = "raised"
                /\ UNCHANGED <<tool_map, context_aware_tools>>
           ELSE /\ phase' = "ready"
                /\ tool_map' = self.tool_map
                /\ context_aware_tools' = self.context_aware_tools
    /\ UNCHANGED <<tools, shared_context, calls, last>>

Remove(frames, c) ==
    [i \in 1..(Len(frames) - 1) |-> IF i < c THEN frames[i] ELSE frames[i + 1]]

\* await executor.execute(ev), up to its first suspension or its end; at most
\* NumCalls calls are in flight
ExecuteStart(ev) ==
    /\ phase = "ready"
    /\ last.st = "idle"
    /\ Len(calls) < NumCalls
    /\ LET frame == ExecuteBegin(Self, ev)
       IN  IF frame.st = "awaiting"
           THEN calls' = Append(calls, frame) /\ UNCHANGED last
           ELSE last' = frame /\ UNCHANGED calls
    /\ UNCHANGED <<tools, phase, tool_map, context_aware_tools, shared_context>>

\* the awaited invocation of call c completes with outcome o
ExecuteFinish(c, o) ==
    /\ c \in DOMAIN calls
    /\ last.st = "idle"
    /\ LET frame == ExecuteResume(calls, c, o)
       IN  IF frame.st = "awaiting"
           THEN calls' = [calls EXCEPT ![c] = frame] /\ UNCHANGED last
           ELSE calls' = Remove(calls, c) /\ last' = frame
    /\ UNCHANGED <<tools, phase, tool_map, context_aware_tools, shared_context>>

\* the caller of execute takes what the call that ended handed over
Deliver ==
    /\ last.st # "idle"
    /\ last' = IdleFrame
    /\ UNCHANGED <<tools, phase, tool_map, context_aware_tools, shared_context, calls>>

Next ==
    \/ Construct
    \/ \E ev \in Events : ExecuteStart(ev)
    \/ \E c \in 1..NumCalls, o \in Outcomes : ExecuteFinish(c, o)
    \/ Deliver

Spec == Init /\ [][Next]_vars

\* ------------------------------------------------------------------ claims
Frames == {last} \cup {calls[i] : i \in DOMAIN calls}

\* the positions in the constructor's sequence of the tools a frame invoked
Invoked(frame) == {frame.invoked[i].tool : i \in DOMAIN frame.invoked}

FunctionToolNamed(name) ==
    \E i \in DOMAIN tools : tools[i].variant = "FunctionTool" /\ tools[i].name = name

OtherToolNamed(name) ==
    \E i \in DOMAIN tools : tools[i].variant = "OtherTool" /\ tools[i].name = name

\* Python's errors: the classes derived from Exception
ErrorClasses == {"Exception", "TypeError", "ValueError"}

\* the invocation of the frame failed: the tool raised an error, or the
\* coercion of what it returned did
InvocationError(frame) ==
    IF frame.outcome.kind = "raise" /\ frame.outcome.cls \in ErrorClasses
    THEN [failed |-> TRUE, msg |-> frame.outcome.msg]
    ELSE IF /\ frame.outcome.kind = "return"
            /\ frame.outcome.value.t \in {"dict", "list"}
            /\ ~JsonDumps(frame.outcome.value).ok
    THEN [failed |-> TRUE, msg |-> JsonDumps(frame.outcome.value).msg]
    ELSE [failed |-> FALSE, msg |-> <<>>]

C3_UnserializableArgumentsAreReturned ==
    (/\ last.st # "idle"
     /\ last.event.tool_name \in DOMAIN tool_map
     /\ ~JsonDumps(last.event.arguments).ok) =>
        /\ last.st = "returned"
        /\ last.invoked = <<>>
        /\ IsErrorShape(last.result, last.event.tool_name)

\* C4: an invoked tool receives the wrapped shared context if and only if
\* the first parameter of its own callable is named context, and None
\* otherwise.  Stated for the tools that expose their callable; the tools
\* without one fall under the list of names of the constructor.
C4_ContextFollowsOwnCallable ==
    \A frame \in Frames : \A i \in DOMAIN frame.invoked :
        LET tool == tools[frame.invoked[i].tool]
            own  == /\ tool.function.callable
                    /\ tool.function.signature
                    /\ tool.function.params # <<>>
                    /\ tool.function.params[1] = "context"
        IN  tool.function.present =>
               frame.invoked[i].context =
                  IF own THEN RunContextWrapper(shared_context) ELSE NoContext

\* the coercion the spec describes, where it is defined
Coerced(v) ==
    IF v.t = "str" THEN v.v
    ELSE IF v.t \in {"dict", "list"} THEN JsonDumps(v).text
    ELSE PyStr(v)

C6_OnlyLastNamesakeInvoked ==
    \A frame \in Frames : \A k \in Invoked(frame) :
        \A j \in (k + 1)..Len(tools) : tools[j].name # tools[k].name

\* C6 as amended: of the function tools with the same name only the last is
\* reachable: execute invokes the last function tool of the requested name.
C6_OnlyLastFunctionToolInvoked ==
    \A frame \in Frames : \A k \in Invoked(frame) :
        /\ tools[k].variant = "FunctionTool"
        /\ tools[k].name = frame.event.tool_name
        /\ \A j \in (k + 1)..Len(tools) :
              ~(tools[j].variant = "FunctionTool" /\ tools[j].name = tools[k].name)

C6_Witness ==
    \E frame \in Frames : \E k \in Invoked(frame) :
        \E j \in 1..(k - 1) :
            tools[j].variant = "FunctionTool" /\ tools[j].name = tools[k].name

NotFound(frame) ==
    /\ frame.st = "returned"
    /\ frame.invoked = <<>>
    /\ IsErrorObject(frame.result, NotFoundMsg(frame.event.tool_name),
                     frame.event.tool_name)

\* C7 as stated: execute against the name of any entry that is not a
\* function tool returns the tool-not-found error object.
C7_OtherToolNameNotFound ==
    \A frame \in Frames :
        (frame.st # "idle" /\ OtherToolNamed(frame.event.tool_name)) => NotFound(frame)

\* C7 as amended: an entry that is not a function tool is never invoked, and
\* execute against its name returns the tool-not-found error object unless a
\* function tool of the sequence has that name.
C7_OtherToolIgnored ==
    \A frame \in Frames :
        /\ \A k \in Invoked(frame) : tools[k].variant = "FunctionTool"
        /\ (/\ frame.st # "idle"
            /\ OtherToolNamed(frame.event.tool_name)
            /\ ~FunctionToolNamed(frame.event.tool_name)) => NotFound(frame)

C7_Witness ==
    /\ last.st # "idle"
    /\ OtherToolNamed(last.event.tool_name)
    /\ ~FunctionToolNamed(last.event.tool_name)
    /\ NotFound(last)

\* C8: the constructor never raises, whatever the sequence of tools.
C8_ConstructionNeverRaises == phase # "raised"

\* a call of execute on its own: no other call in flight
Alone(ev, o) ==
    LET frame == ExecuteBegin(Self, ev)
    IN  IF frame.st = "awaiting" THEN ExecuteResume(<<frame>>, 1, o) ELSE frame

\* C9: with any number of calls in flight, the registry and the set of
\* context-aware names are what the constructor left, every call in flight is
\* where its own event put it, and a call that ended is what the same call
\* running alone gives for its event and its tool's outcome.
C9_CallsAreIndependent ==
    /\ phase = "ready" =>
          /\ tool_map = ToolExecutorInit(tools).tool_map
          /\ context_aware_tools = ToolExecutorInit(tools).context_aware_tools
    /\ phase # "ready" => calls = <<>> /\ last.st = "idle"
    /\ \A i \in DOMAIN calls : calls[i] = ExecuteBegin(Self, calls[i].event)
    /\ last.st # "idle" => last = Alone(last.event, last.outcome)

C9_Witness ==
    /\ last.st = "returned"
    /\ last.invoked # <<>>
    /\ \E i \in DOMAIN calls : calls[i].event.tool_name # last.event.tool_name

====
